---- MODULE Spec2Model ----
(***************************************************************************)
(* Model of the code runner of src/app.py: CodeExecutor (the second        *)
(* definition of the class, lines 400-452, is the one in force: it rebinds *)
(* the name bound at lines 53-87) and its callers render_problem_solver    *)
(* (lines 523-556) and render_solutions_tab (lines 365-397).               *)
(*                                                                         *)
(* The server runs every browser session's script in a thread of one       *)
(* process, so the sessions share sys.stdout / sys.stderr, pyplot's figure *)
(* registry and the working directory; each session owns one CodeExecutor  *)
(* (st.session_state.code_executor).  One action is one step of a thread   *)
(* between two points where another thread may run.                        *)
(*                                                                         *)
(* Beside the runner (Spec, FairSpec, RepeatSpec) the module has the       *)
(* progress record UserProgress and user_data.json (ProgressSpec), the     *)
(* credential store of src/login.py with main's authentication gate        *)
(* (AuthSpec), and the Problems directory with the submit form and         *)
(* get_problem_metadata (ProblemsSpec).  Each part has its own variables   *)
(* and its own next-state relation, which leaves the other parts alone.    *)
(***************************************************************************)
EXTENDS Integers, Sequences, FiniteSets, TLC

Sessions == {1, 2}

\* the Run buttons are clicked at most MaxClicks times, over all sessions
MaxClicks == 3

\* ------------------------------------------------------------------ code
\* A submitted source text, by what the runner and the interpreter use of it:
\* the identifiers its text contains ('plt' in code, lines 428 and 436),
\* whether it compiles, and the statements it executes.
Stmt(op, arg) == [op |-> op, arg |-> arg]

Code(mentions, compiles, body) ==
    [mentions |-> mentions, compiles |-> compiles, body |-> body]

\* x = 1
DefX == Code({"x"}, TRUE, <<Stmt("assign", "x")>>)
\* the editor's template (lines 498-505: import matplotlib.pyplot as plt), then
\* print(x)
UseX == Code({"plt", "x"}, TRUE, <<Stmt("print", "x")>>)
\* print("a"); raise ValueError("bad")
SayRaise == Code({}, TRUE, <<Stmt("say", "a"), Stmt("raise", "bad")>>)
\* plt.plot([1, 2])
PltPlot == Code({"plt"}, TRUE, <<Stmt("plot", "plt")>>)
\* sns.histplot([1, 2, 2]): sns is in the executor's globals (line 406)
SnsPlot == Code({"sns"}, TRUE, <<Stmt("plot", "sns")>>)
\* while True: pass
Forever == Code({}, TRUE, <<Stmt("loop", "")>>)
\* import sys; sys.exit(1)
SysExit == Code({"sys"}, TRUE, <<Stmt("exit", "")>>)
\* print(
BadSyntax == Code({}, FALSE, <<>>)

NoCode == Code({}, TRUE, <<>>)

\* the deterministic, side-effect-free program whose repeated runs are
\* compared: print(x) reads a name and binds none
Probe == UseX

Programs ==
    {DefX, UseX, SayRaise, PltPlot, SnsPlot, Forever, SysExit, BadSyntax}

\* 'plt' in code
HasPlt(c) == "plt" \in c.mentions

\* ------------------------------------------------------------- exceptions
Exc(type, msg, isException, state) ==
    [type |-> type, msg |-> msg, isException |-> isException, state |-> state]

NoExc == Exc("none", "", FALSE, "none")

\* ---------------------------------------------------------------- streams
\* A stream object: the server's own stream, the StringIO of a session's
\* run in progress, or a StringIO of a run that is over, which nobody reads.
Orig == [of |-> 0, live |-> TRUE]
Buf(s) == [of |-> s, live |-> TRUE]
Stale == [of |-> 0, live |-> FALSE]

Retire(p, s) == IF p = Buf(s) THEN Stale ELSE p

NoStreams == [out |-> Orig, err |-> Orig]

\* ------------------------------------------------------------------ files
\* temp_plot.png in the working directory: absent (0), or the picture saved
\* by the run of a session
NoFile == 0

\* ------------------------------------------------------------- namespaces
\* self.locals: a name is unset, or bound by the run in progress ("this") or
\* by an earlier run on the same executor ("prev").
Names == {"x", "_plot_path"}

EmptyLocals == [n \in Names |-> "unset"]

\* the run is over: what it bound is from now on bound by an earlier run
NextRun(loc) == [n \in Names |-> IF loc[n] = "this" THEN "prev" ELSE loc[n]]

NoResult == [made |-> FALSE, stdout |-> <<>>, stderr |-> <<>>]

\* no earlier run to compare with
NoRun == [kept |-> TRUE, made |-> FALSE, stdout |-> <<>>]

\* the stdout of earlier runs is not kept for comparison
NotKept == [kept |-> FALSE, made |-> FALSE, stdout |-> <<>>]

VARIABLES
    sysOut,         \* sys.stdout
    sysErr,         \* sys.stderr
    figs,           \* pyplot's open figures, the current one last
    file,           \* temp_plot.png
    hasExecutor,    \* 'code_executor' in st.session_state
    locals,         \* code_executor.locals
    pc,             \* where each session's thread is
    code,           \* execute's argument
    ip,             \* the statement exec is at
    spin,           \* position inside a loop statement
    outbuf,         \* execute's local stdout (a StringIO)
    errbuf,         \* execute's local stderr (a StringIO)
    savedOut,       \* redirect_stdout's saved target
    savedErr,       \* redirect_stderr's saved target
    exc,            \* the exception in flight, or the one handled
    result,         \* the caller's stdout, stderr of the tuple execute returned;
                    \* the third component, locals_dict, is the executor's
                    \* locals object itself
    shown,          \* what the caller's st.image displayed
    solo,           \* history: no other session was inside execute since this call began
    before,         \* history: the streams installed when such a call began
    wrote,          \* history: what this run's code printed
    rendered,       \* history: the code completed and left a current figure with axes
    everReturned,   \* history: execute has returned this executor's locals
                    \* object in a result
    clicks,         \* how many times a Run button has been clicked
    lastOut         \* history: the stdout this executor's latest returned run
                    \* of Probe gave, where that is kept

runner == <<sysOut, sysErr, figs, file, hasExecutor, locals, pc, code, ip, spin,
            outbuf, errbuf, savedOut, savedErr, exc, result, shown, solo, before,
            wrote, rendered, everReturned, clicks, lastOut>>

\* ---------------------------------------------------------- user progress
\* UserProgress (lines 89-126) and the file it is kept in, user_data.json in
\* the server's working directory (line 51): one file for every session.

\* the ids of the problems a solution is saved for: two of the problems
\* get_problem_metadata lists
ProblemIds == {1, 4}

\* The calendar: Months months of DaysInMonth days each.
Months == 2
DaysInMonth == 3
Date(m, d) == [month |-> m, day |-> d]
Dates == {Date(m, d) : m \in 1 .. Months, d \in 1 .. DaysInMonth}

\* lines 98-103: the record of a user without a file (last_daily_challenge
\* is written nowhere else and is left out)
\* {}
EmptyDict == [k \in {} |-> 0]

EmptyProgress ==
    [completed_problems |-> <<>>, daily_progress |-> EmptyDict, current_streak |-> 0]

\* os.path.exists(USER_DATA_FILE) is false
NoUserData == [exists |-> FALSE, data |-> EmptyProgress]

\* 'user_progress' not in st.session_state
NoProgress == [made |-> FALSE, data |-> EmptyProgress]

NoCall == [op |-> "none", by |-> 0, id |-> 0, outcome |-> "none"]

VARIABLES
    today,          \* date.today()
    userDataFile,   \* user_data.json
    userProgress,   \* st.session_state.user_progress, of each session
    loaded,         \* history: what each session's UserProgress read at its creation
    saves,          \* history: the order of the writes of user_data.json
    lastCall,       \* history: the latest call of mark_problem_complete
    markedBy        \* history: for each problem, the users logged in to a
                    \* session when it called mark_problem_complete for it

progress == <<today, userDataFile, userProgress, loaded, saves, lastCall, markedBy>>

\* no file and no session yet, on the given day
ProgressStart(day) ==
    /\ today = day
    /\ userDataFile = NoUserData
    /\ userProgress = [s \in Sessions |-> NoProgress]
    /\ loaded = [s \in Sessions |-> NoUserData]
    /\ saves = <<>>
    /\ lastCall = NoCall
    /\ markedBy = [id \in ProblemIds |-> {}]

ProgressInit == ProgressStart(Date(1, 1))

\* ------------------------------------------------------------ credentials
\* users.json (login.py lines 8-49) and the keys of st.session_state that
\* main (lines 830-842) and the pages of login.py read and write.
Usernames == {"ann", "bob"}
Passwords == {"pw", "qw"}

\* main's pages (lines 878-897), the login page and the reset page; "none"
\* before the session's first run of the script
AppPages == {"home", "problem_explorer", "daily_challenge", "profile",
             "submit_problem", "problem_solver"}

\* nothing returned yet
NoAnswer == [ok |-> FALSE, message |-> ""]

VARIABLES
    users,          \* users.json: username -> hash; load_users gives {} without it
    authenticated,  \* st.session_state["authenticated"], False when missing
    resetPassword,  \* "reset_password" in st.session_state and truthy
    username,       \* st.session_state["username"], "" when missing
    page,           \* st.session_state["page"], "home" when missing
    screen,         \* what the session's latest run of the script rendered
    answer,         \* what the session's latest call of register or of
                    \* reset_password returned
    current         \* history: the password most recently set for each user by
                    \* a successful register or reset_password

auth == <<users, authenticated, resetPassword, username, page, screen, answer,
          current>>

\* no session yet, with the given users.json, whose passwords were set as
\* given
AuthStart(dict, passwords) ==
    /\ users = dict
    /\ authenticated = [s \in Sessions |-> FALSE]
    /\ resetPassword = [s \in Sessions |-> FALSE]
    /\ username = [s \in Sessions |-> ""]
    /\ page = [s \in Sessions |-> "home"]
    /\ screen = [s \in Sessions |-> "none"]
    /\ answer = [s \in Sessions |-> NoAnswer]
    /\ current = passwords

AuthInit == AuthStart(EmptyDict, [u \in Usernames |-> "none"])

\* --------------------------------------------------------------- problems
\* The Problems directory (PROBLEMS_DIR): one subdirectory per problem, named
\* <number>_<title with blanks replaced>.

\* what the submit form's number field (min_value=1) and title field are
\* filled with; a title is the sequence of its words, blanks and underscores
ProblemNumbers == {4, 12, 25}
Titles == {<<>>, <<"mean">>, <<"row", " ", "mean">>, <<"row", "_", "mean">>}

\* str.replace(old, new)
Replace(str, old, new) == [i \in DOMAIN str |-> IF str[i] = old THEN new ELSE str[i]]

\* line 815: f"{problem_number}_{problem_title.replace(' ', '_')}"; the
\* number is what precedes the first underscore of the name
ProblemDir(problem_number, problem_title) ==
    [number |-> problem_number, name |-> Replace(problem_title, " ", "_")]

VARIABLES
    problemsDir     \* the subdirectories of Problems

problems == <<problemsDir>>

\* the repository's Problems directory: 4_calculate_mean_by_row_or_column
ProblemsInit == problemsDir = {ProblemDir(4, <<"mean">>)}

\* what the steps of one part of the program leave alone
exceptRunner == <<progress, auth, problems>>
exceptProgress == <<runner, auth, problems>>
exceptAuth == <<runner, progress, problems>>
exceptProblems == <<runner, progress, auth>>

vars == <<runner, progress, auth, problems>>

shared == <<sysOut, sysErr, figs, file>>
history == <<solo, before, wrote, rendered, everReturned, clicks, lastOut>>

\* Steps that touch only the run's own objects (its StringIO buffers, its
\* executor's locals, the exception in flight) are taken together with the
\* step on shared state that precedes them.
InExecute(s) ==
    pc[s] \in {"close_all", "figure", "enter_out", "enter_err", "exec", "save",
               "close", "exit_err", "exit_out", "finally"}

RunnerInit ==
    /\ sysOut = Orig
    /\ sysErr = Orig
    /\ figs = <<>>
    /\ file = NoFile
    /\ hasExecutor = [s \in Sessions |-> FALSE]
    /\ locals = [s \in Sessions |-> EmptyLocals]
    /\ pc = [s \in Sessions |-> "idle"]
    /\ code = [s \in Sessions |-> NoCode]
    /\ ip = [s \in Sessions |-> 1]
    /\ spin = [s \in Sessions |-> FALSE]
    /\ outbuf = [s \in Sessions |-> <<>>]
    /\ errbuf = [s \in Sessions |-> <<>>]
    /\ savedOut = [s \in Sessions |-> Orig]
    /\ savedErr = [s \in Sessions |-> Orig]
    /\ exc = [s \in Sessions |-> NoExc]
    /\ result = [s \in Sessions |-> NoResult]
    /\ shown = [s \in Sessions |-> NoFile]
    /\ solo = [s \in Sessions |-> TRUE]
    /\ before = [s \in Sessions |-> NoStreams]
    /\ wrote = [s \in Sessions |-> <<>>]
    /\ rendered = [s \in Sessions |-> FALSE]
    /\ everReturned = [s \in Sessions |-> FALSE]
    /\ clicks = 0

Init ==
    /\ RunnerInit
    /\ lastOut = [s \in Sessions |-> NotKept]
    /\ ProgressInit
    /\ AuthInit
    /\ ProblemsInit

\* ------------------------------------------------------------------ pyplot
\* The figure registry: one entry per open figure, TRUE when it has axes.
\* plt.gcf(): the current figure, a new one when none is open
Gcf(f) == IF f = <<>> THEN <<FALSE>> ELSE f

\* plt.figure()
NewFigure(f) == Append(f, FALSE)

\* a plotting call: axes on the current figure
Draw(f) == [Gcf(f) EXCEPT ![Len(Gcf(f))] = TRUE]

\* plt.close(): closes the current figure, if any
CloseCurrent(f) == IF f = <<>> THEN f ELSE SubSeq(f, 1, Len(f) - 1)

\* len(fig.axes) > 0 for fig = plt.gcf()
CurrentHasAxes(f) == f # <<>> /\ f[Len(f)]

\* ------------------------------------------------------------------ output
\* a write of tok to stream object p: it lands in the StringIO p is, if a run
\* still reads that StringIO
WriteTo(p, buf, tok) ==
    IF p.of \in Sessions /\ p.live THEN [buf EXCEPT ![p.of] = Append(@, tok)] ELSE buf

Said(s, text) == [by |-> s, text |-> text]

\* ----------------------------------------------------------------- caller
\* "Run Code" (render_problem_solver) or "Run Solution" (render_solutions_tab)
\* with source text c: the executor is created on first use, and execute
\* starts with two fresh StringIO objects.
RunCode(s, c) ==
    /\ pc[s] = "idle"
    /\ clicks < MaxClicks
    /\ clicks' = clicks + 1
    /\ hasExecutor' = [hasExecutor EXCEPT ![s] = TRUE]
    /\ code' = [code EXCEPT ![s] = c]
    /\ ip' = [ip EXCEPT ![s] = 1]
    /\ outbuf' = [outbuf EXCEPT ![s] = <<>>]
    /\ errbuf' = [errbuf EXCEPT ![s] = <<>>]
    /\ pc' = [pc EXCEPT ![s] = "close_all"]
    /\ solo' = [t \in Sessions |->
                  IF t = s THEN \A u \in Sessions \ {s} : ~InExecute(u)
                  ELSE IF pc[t] # "idle" THEN FALSE ELSE solo[t]]
    /\ before' = [t \in Sessions |->
                    IF t = s /\ solo'[s] THEN [out |-> sysOut, err |-> sysErr]
                    ELSE IF solo'[t] THEN before[t] ELSE NoStreams]
    /\ locals' = IF hasExecutor[s] THEN locals ELSE [locals EXCEPT ![s] = EmptyLocals]
    /\ UNCHANGED <<shared, spin, savedOut, savedErr, exc, result, shown, wrote,
                   rendered, everReturned, lastOut>>
    /\ UNCHANGED exceptRunner

\* --------------------------------------------------------------- execute
\* line 425: plt.close('all')
CloseAllFirst(s) ==
    /\ pc[s] = "close_all"
    /\ figs' = <<>>
    /\ pc' = [pc EXCEPT ![s] = IF HasPlt(code[s]) THEN "figure" ELSE "enter_out"]
    /\ UNCHANGED <<sysOut, sysErr, file, hasExecutor, locals, code, ip, spin, outbuf,
                   errbuf, savedOut, savedErr, exc, result, shown, history>>
    /\ UNCHANGED exceptRunner

\* lines 428-429: plt.figure()
Figure(s) ==
    /\ pc[s] = "figure"
    /\ figs' = NewFigure(figs)
    /\ pc' = [pc EXCEPT ![s] = "enter_out"]
    /\ UNCHANGED <<sysOut, sysErr, file, hasExecutor, locals, code, ip, spin, outbuf,
                   errbuf, savedOut, savedErr, exc, result, shown, history>>
    /\ UNCHANGED exceptRunner

\* line 432: contextlib.redirect_stdout(stdout).__enter__
EnterOut(s) ==
    /\ pc[s] = "enter_out"
    /\ savedOut' = [savedOut EXCEPT ![s] = sysOut]
    /\ sysOut' = Buf(s)
    /\ pc' = [pc EXCEPT ![s] = "enter_err"]
    /\ UNCHANGED <<sysErr, figs, file, hasExecutor, locals, code, ip, spin, outbuf,
                   errbuf, savedErr, exc, result, shown, history>>
    /\ UNCHANGED exceptRunner

\* line 432: contextlib.redirect_stderr(stderr).__enter__
EnterErr(s) ==
    /\ pc[s] = "enter_err"
    /\ savedErr' = [savedErr EXCEPT ![s] = sysErr]
    /\ sysErr' = Buf(s)
    /\ pc' = [pc EXCEPT ![s] = "exec"]
    /\ UNCHANGED <<sysOut, figs, file, hasExecutor, locals, code, ip, spin, outbuf,
                   errbuf, savedOut, exc, result, shown, history>>
    /\ UNCHANGED exceptRunner

\* an exception leaves the with block of line 432
Raise(s, e) ==
    /\ exc' = [exc EXCEPT ![s] = e]
    /\ pc' = [pc EXCEPT ![s] = "exit_err"]

\* line 433: exec(code, self.globals, self.locals): the text is compiled,
\* then executed one statement at a time
ExecCompile(s) ==
    /\ pc[s] = "exec"
    /\ ~code[s].compiles
    /\ Raise(s, Exc("SyntaxError", "invalid syntax", TRUE, "raised"))
    /\ UNCHANGED <<shared, hasExecutor, locals, code, ip, spin, outbuf, errbuf,
                   savedOut, savedErr, result, shown, history>>
    /\ UNCHANGED exceptRunner

AtStmt(s, op) ==
    /\ pc[s] = "exec"
    /\ code[s].compiles
    /\ ip[s] <= Len(code[s].body)
    /\ code[s].body[ip[s]].op = op

Arg(s) == code[s].body[ip[s]].arg

ExecAssign(s) ==
    /\ AtStmt(s, "assign")
    /\ locals' = [locals EXCEPT ![s][Arg(s)] = "this"]
    /\ ip' = [ip EXCEPT ![s] = @ + 1]
    /\ UNCHANGED <<shared, hasExecutor, pc, code, spin, outbuf, errbuf, savedOut,
                   savedErr, exc, result, shown, history>>
    /\ UNCHANGED exceptRunner

\* print(<name>): the name is looked up in self.locals (self.globals holds
\* only np, pd, plt, sns); the text goes to whatever sys.stdout is now
ExecPrint(s) ==
    /\ AtStmt(s, "print")
    /\ IF locals[s][Arg(s)] # "unset"
       THEN /\ outbuf' = WriteTo(sysOut, outbuf, Said(s, Arg(s)))
            /\ wrote' = [wrote EXCEPT ![s] = Append(@, Said(s, Arg(s)))]
            /\ ip' = [ip EXCEPT ![s] = @ + 1]
            /\ UNCHANGED <<pc, exc>>
       ELSE /\ Raise(s, Exc("NameError", Arg(s), TRUE, "raised"))
            /\ UNCHANGED <<outbuf, wrote, ip>>
    /\ UNCHANGED <<shared, hasExecutor, locals, code, spin, errbuf, savedOut,
                   savedErr, result, shown, solo, before, rendered, everReturned, clicks,
                   lastOut>>
    /\ UNCHANGED exceptRunner

\* print(<literal>)
ExecSay(s) ==
    /\ AtStmt(s, "say")
    /\ outbuf' = WriteTo(sysOut, outbuf, Said(s, Arg(s)))
    /\ wrote' = [wrote EXCEPT ![s] = Append(@, Said(s, Arg(s)))]
    /\ ip' = [ip EXCEPT ![s] = @ + 1]
    /\ UNCHANGED <<shared, hasExecutor, locals, pc, code, spin, errbuf, savedOut,
                   savedErr, exc, result, shown, solo, before, rendered, everReturned,
                   clicks, lastOut>>
    /\ UNCHANGED exceptRunner

\* raise ValueError(<msg>)
ExecRaise(s) ==
    /\ AtStmt(s, "raise")
    /\ Raise(s, Exc("ValueError", Arg(s), TRUE, "raised"))
    /\ UNCHANGED <<shared, hasExecutor, locals, code, ip, spin, outbuf, errbuf,
                   savedOut, savedErr, result, shown, history>>
    /\ UNCHANGED exceptRunner

\* sys.exit(): SystemExit derives from BaseException, not from Exception
ExecExit(s) ==
    /\ AtStmt(s, "exit")
    /\ Raise(s, Exc("SystemExit", "1", FALSE, "raised"))
    /\ UNCHANGED <<shared, hasExecutor, locals, code, ip, spin, outbuf, errbuf,
                   savedOut, savedErr, result, shown, history>>
    /\ UNCHANGED exceptRunner

\* a plotting call (plt.plot, sns.histplot): axes on pyplot's current figure
ExecPlot(s) ==
    /\ AtStmt(s, "plot")
    /\ figs' = Draw(figs)
    /\ ip' = [ip EXCEPT ![s] = @ + 1]
    /\ UNCHANGED <<sysOut, sysErr, file, hasExecutor, locals, pc, code, spin, outbuf,
                   errbuf, savedOut, savedErr, exc, result, shown, history>>
    /\ UNCHANGED exceptRunner

\* while True: pass -- one more turn of the loop; nothing in execute bounds it
ExecLoop(s) ==
    /\ AtStmt(s, "loop")
    /\ spin' = [spin EXCEPT ![s] = ~@]
    /\ UNCHANGED <<shared, hasExecutor, locals, pc, code, ip, outbuf, errbuf,
                   savedOut, savedErr, exc, result, shown, history>>
    /\ UNCHANGED exceptRunner

\* exec returned, the code ran to its end.  Lines 436-438:
\* if 'plt' in code: fig = plt.gcf(); if len(fig.axes) > 0: ...
Plots(s) ==
    /\ pc[s] = "exec"
    /\ code[s].compiles
    /\ ip[s] > Len(code[s].body)
    /\ rendered' = [rendered EXCEPT ![s] = CurrentHasAxes(figs)]
    /\ IF HasPlt(code[s])
       THEN /\ figs' = Gcf(figs)
            /\ pc' = [pc EXCEPT ![s] = IF CurrentHasAxes(figs) THEN "save" ELSE "exit_err"]
       ELSE /\ pc' = [pc EXCEPT ![s] = "exit_err"]
            /\ UNCHANGED figs
    /\ UNCHANGED <<sysOut, sysErr, file, hasExecutor, locals, code, ip, spin, outbuf,
                   errbuf, savedOut, savedErr, exc, result, shown, solo, before,
                   wrote, everReturned, clicks, lastOut>>
    /\ UNCHANGED exceptRunner

\* lines 439-440: plt.savefig("temp_plot.png") writes pyplot's current figure
\* to the one path every run uses, or fails (OSError)
SaveFig(s) ==
    /\ pc[s] = "save"
    /\ \/ /\ figs' = Gcf(figs)
          /\ file' = s
          /\ pc' = [pc EXCEPT ![s] = "close"]
          /\ UNCHANGED exc
       \/ /\ Raise(s, Exc("OSError", "temp_plot.png", TRUE, "raised"))
          /\ UNCHANGED <<figs, file>>
    /\ UNCHANGED <<sysOut, sysErr, hasExecutor, locals, code, ip, spin, outbuf,
                   errbuf, savedOut, savedErr, result, shown, history>>
    /\ UNCHANGED exceptRunner

\* line 441: plt.close(); line 442: self.locals['_plot_path'] = plt_path
ClosePlot(s) ==
    /\ pc[s] = "close"
    /\ figs' = CloseCurrent(figs)
    /\ locals' = [locals EXCEPT ![s]["_plot_path"] = "this"]
    /\ pc' = [pc EXCEPT ![s] = "exit_err"]
    /\ UNCHANGED <<sysOut, sysErr, file, hasExecutor, code, ip, spin, outbuf, errbuf,
                   savedOut, savedErr, exc, result, shown, history>>
    /\ UNCHANGED exceptRunner

\* redirect_stderr.__exit__: sys.stderr = the saved target
ExitErr(s) ==
    /\ pc[s] = "exit_err"
    /\ sysErr' = savedErr[s]
    /\ pc' = [pc EXCEPT ![s] = "exit_out"]
    /\ UNCHANGED <<sysOut, figs, file, hasExecutor, locals, code, ip, spin, outbuf,
                   errbuf, savedOut, savedErr, exc, result, shown, history>>
    /\ UNCHANGED exceptRunner

\* lines 444-446: except Exception as e: the message, then the traceback,
\* written to the run's own StringIO
Handled(e, buf) ==
    IF e.state = "raised" /\ e.isException
    THEN buf \o <<[line |-> "Error", type |-> "", msg |-> e.msg],
                  [line |-> "Traceback", type |-> e.type, msg |-> e.msg]>>
    ELSE buf

AfterExcept(e) ==
    IF e.state = "raised" /\ e.isException THEN [e EXCEPT !.state = "handled"] ELSE e

\* ExitOut as it would be if leaving the with block on an exception skipped
\* the restoration of sys.stdout
ExitOutKeepsBufferOnError(s) ==
    /\ pc[s] = "exit_out"
    /\ sysOut' = IF exc[s].state = "raised" THEN sysOut ELSE savedOut[s]
    /\ errbuf' = [errbuf EXCEPT ![s] = Handled(exc[s], @)]
    /\ exc' = [exc EXCEPT ![s] = AfterExcept(@)]
    /\ pc' = [pc EXCEPT ![s] = "finally"]
    /\ UNCHANGED <<sysErr, figs, file, hasExecutor, locals, code, ip, spin, outbuf,
                   savedOut, savedErr, result, shown, history>>
    /\ UNCHANGED exceptRunner

\* redirect_stdout.__exit__: sys.stdout = the saved target; then the except
\* clause, if an Exception is in flight
ExitOut(s) ==
    /\ pc[s] = "exit_out"
    /\ sysOut' = savedOut[s]
    /\ errbuf' = [errbuf EXCEPT ![s] = Handled(exc[s], @)]
    /\ exc' = [exc EXCEPT ![s] = AfterExcept(@)]
    /\ pc' = [pc EXCEPT ![s] = "finally"]
    /\ UNCHANGED <<sysErr, figs, file, hasExecutor, locals, code, ip, spin, outbuf,
                   savedOut, savedErr, result, shown, history>>
    /\ UNCHANGED exceptRunner

\* lines 448-450: finally: plt.close('all'); then line 452:
\* return stdout.getvalue(), stderr.getvalue(), self.locals -- or, with an
\* exception still in flight, execute raises it to its caller.  Either way
\* nobody reads the run's two StringIO objects again.
Finally(s) ==
    /\ pc[s] = "finally"
    /\ figs' = <<>>
    /\ IF exc[s].state = "raised"
       THEN /\ pc' = [pc EXCEPT ![s] = "raised"]
            /\ UNCHANGED <<result, everReturned>>
       ELSE /\ pc' = [pc EXCEPT ![s] = "returned"]
            /\ result' = [result EXCEPT ![s] =
                            [made |-> TRUE, stdout |-> outbuf[s], stderr |-> errbuf[s]]]
            /\ everReturned' = [everReturned EXCEPT ![s] = TRUE]
    /\ outbuf' = [outbuf EXCEPT ![s] = <<>>]
    /\ errbuf' = [errbuf EXCEPT ![s] = <<>>]
    /\ sysOut' = Retire(sysOut, s)
    /\ sysErr' = Retire(sysErr, s)
    /\ savedOut' = [t \in Sessions |-> IF t = s THEN Orig ELSE Retire(savedOut[t], s)]
    /\ savedErr' = [t \in Sessions |-> IF t = s THEN Orig ELSE Retire(savedErr[t], s)]
    /\ before' = [t \in Sessions |->
                    [out |-> Retire(before[t].out, s), err |-> Retire(before[t].err, s)]]
    /\ UNCHANGED <<file, hasExecutor, locals, code, ip, spin, exc, shown, solo,
                   wrote, rendered, clicks, lastOut>>
    /\ UNCHANGED exceptRunner

\* ------------------------------------------------- caller, after execute
\* the callback is over: its local variables are gone, the session waits for
\* the next click
Idle(s) ==
    /\ pc' = [pc EXCEPT ![s] = "idle"]
    /\ code' = [code EXCEPT ![s] = NoCode]
    /\ ip' = [ip EXCEPT ![s] = 1]
    /\ spin' = [spin EXCEPT ![s] = FALSE]
    /\ exc' = [exc EXCEPT ![s] = NoExc]
    /\ result' = [result EXCEPT ![s] = NoResult]
    /\ shown' = [shown EXCEPT ![s] = NoFile]
    /\ locals' = [locals EXCEPT ![s] = NextRun(@)]
    /\ UNCHANGED <<everReturned, clicks>>
    /\ lastOut' = IF lastOut[s].kept /\ result[s].made /\ code[s] = Probe
                  THEN [lastOut EXCEPT ![s].made = TRUE, ![s].stdout = result[s].stdout]
                  ELSE lastOut
    /\ solo' = [solo EXCEPT ![s] = TRUE]
    /\ before' = [before EXCEPT ![s] = NoStreams]
    /\ wrote' = [wrote EXCEPT ![s] = <<>>]
    /\ rendered' = [rendered EXCEPT ![s] = FALSE]

\* lines 532-534 (376-378): if '_plot_path' in locals_dict: st.image(path).
\* A missing file raises; the caller's except Exception (line 555) reports it
\* and the rest of the block, os.remove included, is skipped.
ShowImage(s) ==
    /\ pc[s] = "returned"
    /\ IF locals[s]["_plot_path"] # "unset" /\ file # NoFile
       THEN /\ shown' = [shown EXCEPT ![s] = file]
            /\ pc' = [pc EXCEPT ![s] = "remove"]
            /\ UNCHANGED <<code, ip, spin, exc, result, locals, history>>
       ELSE Idle(s)
    /\ UNCHANGED <<shared, hasExecutor, outbuf, errbuf, savedOut, savedErr>>
    /\ UNCHANGED exceptRunner

\* line 535 (379): os.remove(locals_dict['_plot_path']); a missing file raises
\* into the same except Exception
RemoveImage(s) ==
    /\ pc[s] = "remove"
    /\ file' = NoFile
    /\ Idle(s)
    /\ UNCHANGED <<sysOut, sysErr, figs, hasExecutor, outbuf, errbuf, savedOut,
                   savedErr>>
    /\ UNCHANGED exceptRunner

\* execute raised: neither except Exception of the caller (lines 555, 396)
\* catches a BaseException, so the callback ends without a result
Abort(s) ==
    /\ pc[s] = "raised"
    /\ Idle(s)
    /\ UNCHANGED <<shared, hasExecutor, outbuf, errbuf, savedOut, savedErr>>
    /\ UNCHANGED exceptRunner

\* the steps of execute
Execute(s) ==
    \/ CloseAllFirst(s)
    \/ Figure(s)
    \/ EnterOut(s)
    \/ EnterErr(s)
    \/ ExecCompile(s)
    \/ ExecAssign(s)
    \/ ExecPrint(s)
    \/ ExecSay(s)
    \/ ExecRaise(s)
    \/ ExecExit(s)
    \/ ExecPlot(s)
    \/ ExecLoop(s)
    \/ Plots(s)
    \/ SaveFig(s)
    \/ ClosePlot(s)
    \/ ExitErr(s)
    \/ ExitOut(s)
    \/ Finally(s)

Caller(s) ==
    \/ \E c \in Programs : RunCode(s, c)
    \/ ShowImage(s)
    \/ RemoveImage(s)
    \/ Abort(s)

Next == \E s \in Sessions : Execute(s) \/ Caller(s)

Spec == Init /\ [][Next]_vars

\* The interpreter keeps running every thread that can run: a call of
\* execute that can take a step eventually takes one.  Nothing makes a user
\* click.
FairSpec == Spec /\ \A s \in Sessions : WF_vars(Execute(s))

\* The same program, with the stdout of each executor's latest run of Probe
\* kept for comparison with its next run.
InitKeepingStdout ==
    /\ RunnerInit
    /\ lastOut = [s \in Sessions |-> NoRun]
    /\ ProgressInit
    /\ AuthInit
    /\ ProblemsInit

RepeatSpec == InitKeepingStdout /\ [][Next]_vars

\* ========================================================== user progress
\* date.isoformat(): the key of daily_progress, "YYYY-MM-DD"; the year is the
\* same for every date of the calendar
IsoFormat(d) == <<d.month, d.day>>

\* x in list
In(x, list) == \E i \in DOMAIN list : list[i] = x

\* dict.get(key, 0)
Get(dict, key) == IF key \in DOMAIN dict THEN dict[key] ELSE 0

\* dict[key] = value
Put(dict, key, value) ==
    [k \in DOMAIN dict \cup {key} |-> IF k = key THEN value ELSE dict[k]]

\* date.replace(day=...) is defined for the days of the date's month only
ValidDay(day) == day \in 1 .. DaysInMonth

\* lines 117-126, update_streak: the loop from current_date with streak
\* counted so far; current_date.replace(day=current_date.day - 1) raises
\* ValueError when current_date is the first of its month
RECURSIVE UpdateStreak(_, _, _)
UpdateStreak(daily_progress, current_date, streak) ==
    IF IsoFormat(current_date) \in DOMAIN daily_progress
    THEN IF ValidDay(current_date.day - 1)
         THEN UpdateStreak(daily_progress,
                           [current_date EXCEPT !.day = current_date.day - 1],
                           streak + 1)
         ELSE [raised |-> TRUE, streak |-> streak + 1]
    ELSE [raised |-> FALSE, streak |-> streak]

\* save_user_data as it would be if it kept the problems the file lists and
\* the record does not
SaveUserDataKeepingOthers(data) ==
    [exists |-> TRUE,
     data |-> [data EXCEPT !.completed_problems =
                 SelectSeq(userDataFile.data.completed_problems,
                           LAMBDA id : ~In(id, data.completed_problems)) \o @]]

\* lines 105-107, save_user_data: json.dump(self.data, f) into the file
\* opened with "w" -- the record replaces whatever the file held
SaveUserData(data) == [exists |-> TRUE, data |-> data]

\* lines 848-849 with 90-103: the session's UserProgress is created on the
\* first run of main past the login, and reads the whole file
LoadUserData(s) ==
    /\ ~userProgress[s].made
    /\ userProgress' = [userProgress EXCEPT ![s] =
                          [made |-> TRUE,
                           data |-> IF userDataFile.exists THEN userDataFile.data
                                    ELSE EmptyProgress]]
    /\ loaded' = [loaded EXCEPT ![s] = userDataFile]
    /\ UNCHANGED <<today, userDataFile, saves, lastCall, markedBy, exceptProgress>>

\* lines 111-115 on the record data of session s: append, count the day,
\* update_streak, save_user_data (the whole record replaces the file).  When
\* update_streak raises, the record keeps what was done to it and nothing is
\* written; the caller (lines 571-580) reports the exception.
Complete(s, problem_id, data) ==
    LET key == IsoFormat(today)
        counted == [data EXCEPT !.completed_problems = Append(@, problem_id),
                                !.daily_progress = Put(@, key, Get(@, key) + 1)]
        walk == UpdateStreak(counted.daily_progress, today, 0)
        done == [counted EXCEPT !.current_streak = walk.streak]
    IN  IF walk.raised
        THEN /\ userProgress' = [userProgress EXCEPT ![s].data = counted]
             /\ lastCall' = [op |-> "mark", by |-> s, id |-> problem_id,
                             outcome |-> "raised"]
             /\ UNCHANGED <<userDataFile, saves>>
        ELSE /\ userProgress' = [userProgress EXCEPT ![s].data = done]
             /\ userDataFile' = SaveUserData(done)
             /\ saves' = Append(saves, [by |-> s, id |-> problem_id])
             /\ lastCall' = [op |-> "mark", by |-> s, id |-> problem_id,
                             outcome |-> "saved"]

\* a call that found the problem in the list
Already(s, problem_id) ==
    /\ lastCall' = [op |-> "mark", by |-> s, id |-> problem_id, outcome |-> "already"]
    /\ UNCHANGED <<userDataFile, userProgress, saves>>

\* mark_problem_complete as it would be without the test of line 110
MarkProblemCompleteUnguarded(s, problem_id) ==
    /\ userProgress[s].made
    /\ Complete(s, problem_id, userProgress[s].data)
    /\ markedBy' = [markedBy EXCEPT ![problem_id] = @ \cup {username[s]}]
    /\ UNCHANGED <<today, loaded, exceptProgress>>

\* lines 109-115, mark_problem_complete, called by "Save Solution" (line 577)
MarkProblemComplete(s, problem_id) ==
    /\ userProgress[s].made
    /\ IF In(problem_id, userProgress[s].data.completed_problems)
       THEN Already(s, problem_id)
       ELSE Complete(s, problem_id, userProgress[s].data)
    /\ markedBy' = [markedBy EXCEPT ![problem_id] = @ \cup {username[s]}]
    /\ UNCHANGED <<today, loaded, exceptProgress>>

\* midnight: date.today() is the next day of the calendar
Tomorrow(d) ==
    IF d.day < DaysInMonth THEN Date(d.month, d.day + 1) ELSE Date(d.month + 1, 1)

NextDay ==
    /\ Tomorrow(today) \in Dates
    /\ today' = Tomorrow(today)
    /\ UNCHANGED <<userDataFile, userProgress, loaded, saves, lastCall, markedBy,
                   exceptProgress>>

ProgressNext ==
    \/ \E s \in Sessions : LoadUserData(s)
    \/ \E s \in Sessions : \E id \in ProblemIds : MarkProblemComplete(s, id)
    \/ NextDay

ProgressSpec == Init /\ [][ProgressNext]_vars

\* ============================================================ credentials
\* login.py lines 11-12, hash_password: the SHA-256 digest of the password,
\* different for different passwords and never the password itself
HashPassword(password) == <<"sha256", password>>

\* login.py lines 15-19, load_users
LoadUsers == users

\* authenticate as it would be if it compared no password
AuthenticateAnyPassword(u, password) == u \in DOMAIN LoadUsers

\* login.py lines 27-31, authenticate: load_users, then the comparison
Authenticate(u, password) ==
    u \in DOMAIN LoadUsers /\ LoadUsers[u] = HashPassword(password)

\* main as it would be without the test of line 839
MainWithoutGate(isAuthenticated, isReset, sessionPage) ==
    IF isReset THEN "reset" ELSE sessionPage

\* app.py lines 834-842 and 878-897: the page one run of main renders, from
\* the session's keys
Main(isAuthenticated, isReset, sessionPage) ==
    IF isReset THEN "reset"
    ELSE IF ~isAuthenticated THEN "login"
    ELSE sessionPage

\* login.py lines 21-24, save_users: the dict replaces the file
SaveUsers(dict) == dict

\* the session's first run of the script
Open(s) ==
    /\ screen[s] = "none"
    /\ screen' = [screen EXCEPT ![s] = Main(authenticated[s], resetPassword[s], page[s])]
    /\ UNCHANGED <<users, authenticated, resetPassword, username, page, answer,
                   current, exceptAuth>>

\* login.py lines 116-123, the Login button; on success the script runs again
\* (st.experimental_rerun) and main renders from the new keys
Login(s, u, password) ==
    /\ screen[s] = "login"
    /\ IF Authenticate(u, password)
       THEN /\ authenticated' = [authenticated EXCEPT ![s] = TRUE]
            /\ username' = [username EXCEPT ![s] = u]
            /\ screen' = [screen EXCEPT ![s] = Main(TRUE, resetPassword[s], page[s])]
       ELSE UNCHANGED <<authenticated, username, screen>>
    /\ UNCHANGED <<users, resetPassword, page, answer, current, exceptAuth>>

\* login.py lines 129-131, the "Forgot Password?" button
ForgotPassword(s) ==
    /\ screen[s] = "login"
    /\ resetPassword' = [resetPassword EXCEPT ![s] = TRUE]
    /\ screen' = [screen EXCEPT ![s] = Main(authenticated[s], TRUE, page[s])]
    /\ UNCHANGED <<users, authenticated, username, page, answer, current, exceptAuth>>

\* register as it would be without the test of line 36
RegisterOverwriting(s, u, password) ==
    /\ screen[s] = "login"
    /\ users' = SaveUsers(Put(LoadUsers, u, HashPassword(password)))
    /\ answer' = [answer EXCEPT ![s] =
                    [ok |-> TRUE, message |-> "Registration successful!"]]
    /\ current' = [current EXCEPT ![u] = password]
    /\ UNCHANGED <<authenticated, resetPassword, username, page, screen, exceptAuth>>

\* login.py lines 34-40, register, from the Register button (lines 141-146)
Register(s, u, password) ==
    /\ screen[s] = "login"
    /\ IF u \in DOMAIN LoadUsers
       THEN /\ answer' = [answer EXCEPT ![s] =
                            [ok |-> FALSE, message |-> "Username already exists."]]
            /\ UNCHANGED <<users, current>>
       ELSE /\ users' = SaveUsers(Put(LoadUsers, u, HashPassword(password)))
            /\ answer' = [answer EXCEPT ![s] =
                            [ok |-> TRUE, message |-> "Registration successful!"]]
            /\ current' = [current EXCEPT ![u] = password]
    /\ UNCHANGED <<authenticated, resetPassword, username, page, screen, exceptAuth>>

\* login.py lines 43-49, reset_password, from the Reset Password button
\* (lines 156-163); on success the key is deleted and the script runs again
ResetPassword(s, u, password) ==
    /\ screen[s] = "reset"
    /\ IF u \notin DOMAIN LoadUsers
       THEN /\ answer' = [answer EXCEPT ![s] =
                            [ok |-> FALSE, message |-> "Username not found."]]
            /\ UNCHANGED <<users, current, resetPassword, screen>>
       ELSE /\ users' = SaveUsers(Put(LoadUsers, u, HashPassword(password)))
            /\ answer' = [answer EXCEPT ![s] =
                            [ok |-> TRUE, message |-> "Password reset successful!"]]
            /\ current' = [current EXCEPT ![u] = password]
            /\ resetPassword' = [resetPassword EXCEPT ![s] = FALSE]
            /\ screen' = [screen EXCEPT ![s] = Main(authenticated[s], FALSE, page[s])]
    /\ UNCHANGED <<authenticated, username, page, exceptAuth>>

\* app.py lines 862-864, the Logout button
Logout(s) ==
    /\ screen[s] \in AppPages
    /\ authenticated' = [authenticated EXCEPT ![s] = FALSE]
    /\ screen' = [screen EXCEPT ![s] = Main(FALSE, resetPassword[s], page[s])]
    /\ UNCHANGED <<users, resetPassword, username, page, answer, current, exceptAuth>>

\* app.py lines 865-876 (the sidebar), 219-228 (the header) and 339-340,
\* 615-616 (a problem is opened): the session goes to another page
Navigate(s, to) ==
    /\ screen[s] \in AppPages
    /\ page' = [page EXCEPT ![s] = to]
    /\ screen' = [screen EXCEPT ![s] = Main(authenticated[s], resetPassword[s], to)]
    /\ UNCHANGED <<users, authenticated, resetPassword, username, answer, current,
                   exceptAuth>>

AuthNext ==
    \/ \E s \in Sessions : Open(s)
    \/ \E s \in Sessions : \E u \in Usernames : \E pw \in Passwords : Login(s, u, pw)
    \/ \E s \in Sessions : ForgotPassword(s)
    \/ \E s \in Sessions : \E u \in Usernames : \E pw \in Passwords : Register(s, u, pw)
    \/ \E s \in Sessions : \E u \in Usernames : \E pw \in Passwords :
          ResetPassword(s, u, pw)
    \/ \E s \in Sessions : Logout(s)
    \/ \E s \in Sessions : \E to \in AppPages : Navigate(s, to)

AuthSpec == Init /\ [][AuthNext]_vars

\* =============================================================== problems
\* lines 128-140, get_problem_directories: the subdirectories sorted by the
\* number their name starts with (re.match(r'(\d+)_', dirname)); names with
\* the same number come in the order os.listdir gave them, some order
RECURSIVE SortedByNumber(_)
SortedByNumber(dirs) ==
    IF dirs = {} THEN <<>>
    ELSE LET first == CHOOSE d \in dirs : \A e \in dirs : d.number <= e.number
         IN  <<first>> \o SortedByNumber(dirs \ {first})

GetProblemDirectories == SortedByNumber(problemsDir)

\* lines 238-243
Difficulty(number) ==
    IF number < 10 THEN "easy" ELSE IF number < 20 THEN "medium" ELSE "hard"

\* lines 234-235: re.match(r'(\d+)_(.+)', problem_dir) needs a character
\* after the underscore
Matches(problem_dir) == problem_dir.name # <<>>

\* lines 256-262: the record of a directory (the category, a function of the
\* name, is left out)
Metadata(problem_dir) ==
    [id |-> problem_dir.number,
     title |-> Replace(problem_dir.name, "_", " "),
     difficulty |-> Difficulty(problem_dir.number),
     directory |-> problem_dir]

\* lines 230-263, get_problem_metadata: the records of the matching
\* directories; sorted(problems, key id) keeps the order of a list that is
\* sorted by number already
GetProblemMetadata ==
    LET matching == SelectSeq(GetProblemDirectories, Matches)
    IN  [i \in DOMAIN matching |-> Metadata(matching[i])]

\* lines 813-823, "Submit Problem": os.makedirs(problem_path, exist_ok=True)
\* and the two files written into the directory, new or not
SubmitProblem(problem_number, problem_title) ==
    /\ problemsDir' = problemsDir \cup {ProblemDir(problem_number, problem_title)}
    /\ UNCHANGED exceptProblems

ProblemsNext ==
    \E number \in ProblemNumbers : \E title \in Titles : SubmitProblem(number, title)

ProblemsSpec == Init /\ [][ProblemsNext]_vars

\* ====================================================== users and progress
\* The progress record as the users of the application meet it: main creates
\* the session's UserProgress when it first runs past the login (app.py lines
\* 848-849), "Save Solution" on the problem solver page marks the problem
\* (lines 571-580), and Logout (lines 862-864) leaves 'user_progress' in
\* st.session_state.

\* main has run past line 849 in this session
AppReady(s) == screen[s] \in AppPages /\ userProgress[s].made

\* lines 846-853, in the first run of main past the login
EnterApp(s) ==
    /\ screen[s] \in AppPages
    /\ LoadUserData(s)

\* lines 571-580, "Save Solution" for the problem the solver page shows
SaveSolution(s, problem_id) ==
    /\ AppReady(s)
    /\ screen[s] = "problem_solver"
    /\ MarkProblemComplete(s, problem_id)

\* lines 339-340, 615-616: a problem is opened
OpenProblem(s) ==
    /\ AppReady(s)
    /\ Navigate(s, "problem_solver")

\* lines 862-864
LogoutOfApp(s) ==
    /\ AppReady(s)
    /\ Logout(s)

UserNext ==
    \/ \E s \in Sessions : Open(s)
    \/ \E s \in Sessions : \E u \in Usernames : \E pw \in Passwords : Login(s, u, pw)
    \/ \E s \in Sessions : EnterApp(s)
    \/ \E s \in Sessions : OpenProblem(s)
    \/ \E s \in Sessions : \E id \in ProblemIds : SaveSolution(s, id)
    \/ \E s \in Sessions : LogoutOfApp(s)

\* The two users have registered, each with the password "pw", and it is the
\* second day of a month: update_streak does not reach the first.
UserInit ==
    /\ RunnerInit
    /\ lastOut = [s \in Sessions |-> NotKept]
    /\ ProgressStart(Date(1, 2))
    /\ AuthStart([u \in Usernames |-> HashPassword("pw")], [u \in Usernames |-> "pw"])
    /\ ProblemsInit

UserSpec == UserInit /\ [][UserNext]_vars

\* ================================================================ claims
UserNames == Names \ {"_plot_path"}

Texts(seq) == {seq[i] : i \in DOMAIN seq}

CallOver(s) == pc[s] \in {"returned", "remove", "raised"}

\* ---------------------------------------------------------------- C1
\* C1: namespace isolation between runs -- no name bound by the code of an
\* earlier run on the same executor is visible to the code of a later run:
\* a name whose value the code of a run has read and printed was bound by
\* that run.
C1_NamespaceIsolation ==
    \A s \in Sessions : \A n \in UserNames :
        Said(s, n) \in Texts(wrote[s]) => locals[s][n] = "this"

\* ---------------------------------------------------------------- C2
\* C2: no fault propagation -- execute never raises to its caller, and a run
\* in which a fault was raised returns a result whose stderr is not empty.
C2_NoFaultPropagation ==
    \A s \in Sessions :
        /\ pc[s] # "raised"
        /\ pc[s] = "returned" /\ exc[s].state # "none" => result[s].stderr # <<>>

\* ---------------------------------------------------------------- C3
\* C3: every run terminates -- a call of execute that has started executing
\* the code eventually ends (returning its result, or at least giving control
\* back to its caller).
C3_EveryRunEnds ==
    \A s \in Sessions : (pc[s] = "exec") ~> CallOver(s)

\* ---------------------------------------------------------------- C4
\* C4: the artifact file is owned by one run -- the image a caller has read
\* and is about to delete for its run is the one its own run saved.
C4_OwnImage ==
    \A s \in Sessions : pc[s] = "remove" => shown[s] = s /\ file = s

\* ---------------------------------------------------------------- C5
\* C5: single flight -- no two calls of execute are in progress at the same
\* time in the process whose streams, figures and working directory they use.
C5_SingleFlight ==
    \A s, t \in Sessions : s # t => ~(InExecute(s) /\ InExecute(t))

\* ---------------------------------------------------------------- C6
\* C6: an artifact reference in a returned result refers to an existing file
\* -- when execute has returned and the caller has not yet consumed the
\* result, a '_plot_path' entry in the returned locals means temp_plot.png
\* exists.
C6_ArtifactExists ==
    \A s \in Sessions :
        pc[s] = "returned" /\ locals[s]["_plot_path"] # "unset" => file # NoFile

\* ---------------------------------------------------------------- C7
\* C7: a returned run has set an artifact reference of its own exactly when
\* its code completed without exception and left a current figure with axes.
C7_PlotGivesArtifact ==
    \A s \in Sessions :
        pc[s] = "returned" => (rendered[s] <=> locals[s]["_plot_path"] = "this")

\* ---------------------------------------------------------------- C8
\* C8: a result is never mutated after construction -- once execute has
\* returned a result, no step changes its variables component, which is the
\* executor's locals object (names and the values bound to them).
C8_ResultNeverMutated ==
    [][\A s \in Sessions :
          everReturned[s] => NextRun(locals'[s]) = NextRun(locals[s])]_vars

\* ---------------------------------------------------------------- C9
\* C9: stream restoration -- after a call of execute that no other session's
\* call overlapped, whether it returned or raised, sys.stdout and sys.stderr
\* are the streams that were installed when the call began.
C9_StreamsRestored ==
    \A s \in Sessions :
        CallOver(s) /\ solo[s] => sysOut = before[s].out /\ sysErr = before[s].err

\* a non-overlapped call whose code raised has returned, after two earlier
\* calls of the two sessions
C9_Witness ==
    \E s \in Sessions :
        pc[s] = "returned" /\ solo[s] /\ exc[s].state = "handled" /\ clicks = MaxClicks

\* --------------------------------------------------------------- C10

Reported(s) ==
    /\ result[s].stderr # <<>>
    /\ \E i \in DOMAIN result[s].stderr : result[s].stderr[i].msg = exc[s].msg
    /\ Texts(wrote[s]) \subseteq Texts(result[s].stdout)

\* C10: when the code raised an exception, the returned stderr is non-empty
\* and contains the exception's message, and what the code had printed is in
\* the returned stdout.
C10_ExceptionReported ==
    \A s \in Sessions :
        pc[s] = "returned" /\ exc[s].state = "handled" => Reported(s)

\* The same for a call that no other session's call overlapped: this holds.
SoloExceptionReported ==
    \A s \in Sessions :
        pc[s] = "returned" /\ exc[s].state = "handled" /\ solo[s] => Reported(s)

\* --------------------------------------------------------------- C11
\* C11: whenever the executed code runs to completion without an exception,
\* the returned stdout is exactly the text the code wrote to standard output,
\* in order, and the runner adds no error text to stderr.
C11_OutputExact ==
    \A s \in Sessions :
        pc[s] = "returned" /\ exc[s].state = "none" =>
            result[s].stdout = wrote[s] /\ result[s].stderr = <<>>

\* The same for a call that no other session's call overlapped: this holds.
SoloOutputExact ==
    \A s \in Sessions :
        pc[s] = "returned" /\ exc[s].state = "none" /\ solo[s] =>
            result[s].stdout = wrote[s] /\ result[s].stderr = <<>>

\* --------------------------------------------------------------- C12
\* C12: idempotence of runs -- a run of the same deterministic,
\* side-effect-free code on the same executor returns the stdout its earlier
\* run returned, whatever other runs came before or between the two.
C12_Idempotent ==
    \A s \in Sessions :
        pc[s] = "returned" /\ code[s] = Probe /\ lastOut[s].made =>
            result[s].stdout = lastOut[s].stdout

\* The same when no other session's call overlapped the later run: this
\* fails too, by the executor's namespace alone.
SoloIdempotent ==
    \A s \in Sessions :
        pc[s] = "returned" /\ code[s] = Probe /\ lastOut[s].made /\ solo[s] =>
            result[s].stdout = lastOut[s].stdout

\* --------------------------------------------------------------- C13
\* C13: problem ids are unique -- after any sequence of submissions through
\* the submit form, the listing get_problem_metadata returns has no two
\* records with the same id.
C13_UniqueIds ==
    \A i, j \in DOMAIN GetProblemMetadata :
        GetProblemMetadata[i].id = GetProblemMetadata[j].id => i = j

\* --------------------------------------------------------------- C14
NoDuplicates(list) == \A i, j \in DOMAIN list : list[i] = list[j] => i = j

Completed(s) == userProgress[s].data.completed_problems

\* C14: the completed problems are a set -- starting from an empty progress
\* record, no call of mark_problem_complete ever leaves a duplicate in a
\* session's completed_problems list or in the persisted one, and a call for
\* a problem that is already in the list changes nothing: the list, the daily
\* counts, the streak and the file are as before.
C14_CompletedIsSet ==
    /\ [](/\ \A s \in Sessions : NoDuplicates(Completed(s))
          /\ NoDuplicates(userDataFile.data.completed_problems))
    /\ [][\A s \in Sessions : \A id \in ProblemIds :
            MarkProblemComplete(s, id) /\ In(id, Completed(s)) =>
                UNCHANGED <<userProgress, userDataFile>>]_vars

\* a session has just marked a problem again that it had completed and saved
C14_Witness ==
    \E s \in Sessions :
        /\ lastCall.by = s /\ lastCall.outcome = "already"
        /\ userDataFile.exists
        /\ In(lastCall.id, userDataFile.data.completed_problems)
        /\ Len(Completed(s)) = Cardinality(ProblemIds)

\* --------------------------------------------------------------- C15
\* the latest two writes of the file were by s for p, then by t for q
SavedInTurn(s, p, t, q) ==
    /\ Len(saves) >= 2
    /\ saves[Len(saves) - 1] = [by |-> s, id |-> p]
    /\ saves[Len(saves)] = [by |-> t, id |-> q]

\* sessions s and t read the same file, then s marked p and nothing else and
\* t marked q and nothing else
MarkedOneEach(s, p, t, q) ==
    /\ userProgress[s].made /\ userProgress[t].made
    /\ loaded[s] = loaded[t]
    /\ Completed(s) = Append(loaded[s].data.completed_problems, p)
    /\ Completed(t) = Append(loaded[t].data.completed_problems, q)

\* C15: lost update -- when two sessions have loaded the same progress file
\* and each then marks a different problem complete, the later save replaces
\* the earlier one: the persisted list has the later session's problem and
\* lacks the problem the earlier session marked.
C15_LostUpdate ==
    \A s, t \in Sessions : \A p, q \in ProblemIds :
        s # t /\ p # q /\ MarkedOneEach(s, p, t, q) /\ SavedInTurn(s, p, t, q) =>
            /\ userDataFile.data.completed_problems = Completed(t)
            /\ ~In(p, userDataFile.data.completed_problems)

\* two sessions that read the same file have each saved a different problem
C15_Witness ==
    \E s, t \in Sessions : \E p, q \in ProblemIds :
        s # t /\ p # q /\ MarkedOneEach(s, p, t, q) /\ SavedInTurn(s, p, t, q)

\* --------------------------------------------------------------- C16
\* C16: failed credential operations leave the store unchanged -- register
\* with a username that exists returns (False, "Username already exists.")
\* and reset_password with an unknown username returns (False, "Username not
\* found."), and in both cases users.json holds the same users and hashes as
\* before the call.
C16_FailedCallsChangeNothing ==
    [][\A s \in Sessions : \A u \in Usernames : \A pw \in Passwords :
          /\ Register(s, u, pw) /\ u \in DOMAIN users =>
                /\ answer'[s] = [ok |-> FALSE, message |-> "Username already exists."]
                /\ users' = users
          /\ ResetPassword(s, u, pw) /\ u \notin DOMAIN users =>
                /\ answer'[s] = [ok |-> FALSE, message |-> "Username not found."]
                /\ users' = users]_vars

\* one session's register has just failed and the other's reset_password
\* has, with a user in the store
C16_Witness ==
    \E s, t \in Sessions :
        /\ answer[s] = [ok |-> FALSE, message |-> "Username already exists."]
        /\ answer[t] = [ok |-> FALSE, message |-> "Username not found."]
        /\ DOMAIN users # {}

\* --------------------------------------------------------------- C17
\* C17: after any sequence of register and reset_password calls,
\* authenticate(u, p) is True exactly when u has been registered and p is the
\* password most recently set for u by a successful register or
\* reset_password; it is False for an unregistered user and for an earlier
\* password of u that is not the current one.
C17_AuthenticateCurrentPassword ==
    \A u \in Usernames : \A pw \in Passwords :
        Authenticate(u, pw) <=> current[u] = pw

\* a user's password has been reset to another one than the registered one
\* (the store holds its hash only), and the other user is not registered
C17_Witness ==
    \E u, v \in Usernames : \E s \in Sessions :
        /\ answer[s] = [ok |-> TRUE, message |-> "Password reset successful!"]
        /\ current[u] = "qw" /\ users[u] = HashPassword("qw")
        /\ ~Authenticate(u, "pw")
        /\ current[v] = "none"

\* --------------------------------------------------------------- C18
\* the day before d in the calendar
Yesterday(d) ==
    IF d.day > 1 THEN Date(d.month, d.day - 1) ELSE Date(d.month - 1, DaysInMonth)

\* the number of consecutive calendar days, ending with d and going
\* backwards, that have an entry in daily_progress
RECURSIVE ConsecutiveDays(_, _)
ConsecutiveDays(daily_progress, d) ==
    IF d \in Dates /\ IsoFormat(d) \in DOMAIN daily_progress
    THEN 1 + ConsecutiveDays(daily_progress, Yesterday(d))
    ELSE 0

\* C18: on every date on which a problem that is not yet completed is
\* marked, update_streak finishes without raising and sets current_streak to
\* the number of consecutive calendar days, ending today, that have an entry
\* in daily_progress (also across the first day of a month), and
\* mark_problem_complete then writes the record to the file.
C18_StreakCounted ==
    [][\A s \in Sessions : \A id \in ProblemIds :
          MarkProblemComplete(s, id) /\ ~In(id, Completed(s)) =>
              /\ lastCall'.outcome = "saved"
              /\ userProgress'[s].data.current_streak =
                     ConsecutiveDays(userProgress'[s].data.daily_progress, today)
              /\ userDataFile' = SaveUserData(userProgress'[s].data)]_vars

\* The same on the days from which the run of days does not reach the first
\* of the month: this holds.
StreakCountedInsideMonth ==
    [][\A s \in Sessions : \A id \in ProblemIds :
          /\ MarkProblemComplete(s, id)
          /\ ~In(id, Completed(s))
          /\ ConsecutiveDays(userProgress'[s].data.daily_progress, today) < today.day
          => /\ lastCall'.outcome = "saved"
             /\ userProgress'[s].data.current_streak =
                    ConsecutiveDays(userProgress'[s].data.daily_progress, today)
             /\ userDataFile' = SaveUserData(userProgress'[s].data)]_vars

\* --------------------------------------------------------------- C19
\* C19: authentication gate -- main renders an application page only when
\* the session's 'authenticated' is True; 'authenticated' becomes True only by
\* a Login click for which authenticate(username, password) returned True;
\* Logout sets it to False and the login page is rendered next; and while the
\* 'reset_password' flag is set the reset page is rendered, no application
\* page.
C19_AuthenticationGate ==
    /\ [](\A s \in Sessions :
            /\ screen[s] \in AppPages => authenticated[s] /\ ~resetPassword[s]
            /\ resetPassword[s] => screen[s] = "reset")
    /\ [][\A s \in Sessions :
            /\ authenticated'[s] /\ ~authenticated[s] =>
                  \E u \in Usernames : \E pw \in Passwords :
                      Login(s, u, pw) /\ Authenticate(u, pw)
            /\ Logout(s) => ~authenticated'[s] /\ screen'[s] = "login"]_vars

\* one session is logged in and on the profile page; the other has logged
\* in, logged out and asked for a password reset
C19_Witness ==
    \E s, t \in Sessions :
        /\ authenticated[s] /\ screen[s] = "profile"
        /\ username[t] # "" /\ ~authenticated[t]
        /\ resetPassword[t] /\ screen[t] = "reset"

\* --------------------------------------------------------------- C20
\* C20: output capture under interleaving -- a call of execute that another
\* session's call overlapped returns as stdout exactly the text its own code
\* wrote, and when no call is in progress any more sys.stdout and sys.stderr
\* are the process's original streams.
C20_CaptureUnderInterleaving ==
    /\ \A s \in Sessions :
          pc[s] = "returned" /\ ~solo[s] => result[s].stdout = wrote[s]
    /\ (\A s \in Sessions : ~InExecute(s)) => sysOut = Orig /\ sysErr = Orig

\* --------------------------------------------------------------- C21
\* the problems the user logged in to session s has marked complete
MarkedBy(s) == {id \in ProblemIds : username[s] \in markedBy[id]}

\* C21: progress is per user -- the record the pages of a logged-in session
\* show counts no problem that was marked while another user was logged in:
\* every problem in its completed list was marked by the session's user, and
\* its count for today is not more than the problems that user marked,
\* whether the user logged in after another one in the same browser session
\* or in a session of their own.
C21_ProgressPerUser ==
    \A s \in Sessions :
        authenticated[s] /\ AppReady(s) =>
            /\ \A id \in ProblemIds : In(id, Completed(s)) => id \in MarkedBy(s)
            /\ Get(userProgress[s].data.daily_progress, IsoFormat(today))
                   <= Cardinality(MarkedBy(s))
            /\ userProgress[s].data.current_streak > 0 => MarkedBy(s) # {}

\* The same for a user who logs in, in a new session, after another user has
\* saved a solution in a session of their own: this fails too, by the file.
NewSessionProgressPerUser ==
    \A s \in Sessions :
        /\ authenticated[s] /\ AppReady(s)
        /\ \A t \in Sessions \ {s} : username[t] # username[s]
        /\ lastCall.by # s
        => \A id \in ProblemIds : In(id, Completed(s)) => id \in MarkedBy(s)

====
